---- MODULE Spec2Model ----
(***************************************************************************)
(* A model of segnmt/train/train.py: the batch converters, the vocabulary  *)
(* loader, the corpus loader and retrieval attacher, the BLEU extension    *)
(* and the training loop that train() assembles.                           *)
(*                                                                         *)
(* Python values are represented as follows.  A numpy id array is a        *)
(* sequence of integers.  A Python tuple or list is a sequence.  An        *)
(* Example is the pair <<source, target>>; an augmented example is the     *)
(* triple <<source, target, similar_data>>.  A function that can raise     *)
(* returns a record whose field err names the exception ("none" when the   *)
(* call returns normally).                                                 *)
(***************************************************************************)
EXTENDS Integers, Sequences, FiniteSets, TLC

VARIABLES
    minibatch, converted,       \* a converter's argument and what it returned
    vocab_file, size, vocab,    \* load_vocab's arguments and what it returned
    corpus, fulldata,           \* the loaders' files and what they returned
    args, pc, error,            \* train(args): its arguments, where it is, what it raised
    training_data,              \* what load_train_data returned to train
    validation_data,            \* what load_validation_data returned to train
    trainer, rng,               \* what the trainer serializes; numpy's random state
    ext, fired,                 \* the extension loop of the current iteration
    snapshots,                  \* the snapshot files written so far
    run, uninterrupted,         \* which process this is; the first one's final state
    scorer                      \* a CalculateBleu extension being called

convVars == <<minibatch, converted>>
vocabVars == <<vocab_file, size, vocab>>
loadVars == <<corpus, fulldata>>
trainVars ==
    <<args, pc, error, training_data, validation_data, trainer, rng, ext, fired,
      snapshots, run, uninterrupted>>
vars ==
    <<minibatch, converted, vocab_file, size, vocab, corpus, fulldata,
      args, pc, error, training_data, validation_data, trainer, rng, ext, fired,
      snapshots, run, uninterrupted, scorer>>

(***************************************************************************)
(* Reserved ids (segnmt.misc.constants).                                   *)
(***************************************************************************)
UNK == 0
EOS == 1
PAD == -1

(***************************************************************************)
(* Bounds of the model.                                                    *)
(***************************************************************************)
MaxLen == 2
MaxBatch == 2
MaxRetrieved == 2
MaxVocabLines == 2
MaxCorpus == 2
MaxTrigger == 2
NumEpochs == 55


Max(S) == CHOOSE m \in S : \A x \in S : x <= m
Min(S) == CHOOSE m \in S : \A x \in S : m <= x

Raised(name) == [err |-> name]
NotCalled == [call |-> "none"]

(***************************************************************************)
(* zip over the rows of the minibatch: the number of tuples it yields.     *)
(* zip stops at the shortest row, and yields nothing for an empty          *)
(* minibatch.                                                              *)
(***************************************************************************)
ZipArity(mb) ==
    IF Len(mb) = 0 THEN 0 ELSE Min({Len(mb[i]) : i \in 1..Len(mb)})

Column(mb, c) == [i \in 1..Len(mb) |-> mb[i][c]]

(***************************************************************************)
(* np.hstack((sentence, eos)) with eos = np.array([EOS], 'i').             *)
(***************************************************************************)
AppendEos(sentence) == Append(sentence, EOS)

(***************************************************************************)
(* F.pad_sequence(xs, padding=PAD): a block with one row per sequence, as  *)
(* wide as the longest one, every shorter row filled on the right.         *)
(***************************************************************************)
\* a variant that fills on the left
PadSequenceLeft(xs) ==
    LET width == Max({Len(xs[i]) : i \in 1..Len(xs)})
    IN  [i \in 1..Len(xs) |->
            [p \in 1..width |->
                IF p > width - Len(xs[i])
                THEN xs[i][p - (width - Len(xs[i]))] ELSE PAD]]
PadSequence(xs) ==
    LET width == Max({Len(xs[i]) : i \in 1..Len(xs)})
    IN  [i \in 1..Len(xs) |->
            [p \in 1..width |-> IF p <= Len(xs[i]) THEN xs[i][p] ELSE PAD]]

(***************************************************************************)
(* convert(minibatch, device).  The unpacking                              *)
(*     src_batch, tgt_batch = zip(...)                                     *)
(* raises ValueError unless zip yields exactly two tuples.                 *)
(***************************************************************************)
convert(mb) ==
    IF ZipArity(mb) # 2 THEN Raised("ValueError")
    ELSE LET src_sentences == [i \in 1..Len(mb) |-> AppendEos(mb[i][1])]
             tgt_sentences == [i \in 1..Len(mb) |-> AppendEos(mb[i][2])]
         IN  [err |-> "none",
              source |-> PadSequence(src_sentences),
              target |-> PadSequence(tgt_sentences)]

(***************************************************************************)
(* convert_with_similar_sentences(minibatch, device).                      *)
(***************************************************************************)
EmptyPair == << <<>>, <<>> >>

\* a variant that counts the ranks from the end of a retrieved set
RankColumnShifted(sim_batches, i) ==
    [b \in 1..Len(sim_batches) |->
        IF i < Len(sim_batches[b]) THEN sim_batches[b][Len(sim_batches[b]) - i]
        ELSE EmptyPair]
\* the list comprehension of lines 147-151; i is the 0-based rank
RankColumn(sim_batches, i) ==
    [b \in 1..Len(sim_batches) |->
        IF i < Len(sim_batches[b]) THEN sim_batches[b][i + 1] ELSE EmptyPair]

\* an exception of a call of convert (line 138, lines 147-151) leaves the
\* function: the first rank whose entries do not unpack into two batches
\* raises ValueError
convert_with_similar_sentences(mb) ==
    IF ZipArity(mb) # 3 THEN Raised("ValueError")
    ELSE LET sim_batches == Column(mb, 3)
             base == convert([i \in 1..Len(mb) |-> <<mb[i][1], mb[i][2]>>])
             max_retrieved_count ==
                 Max({Len(sim_batches[b]) : b \in 1..Len(sim_batches)})
             similar_sentences ==
                 [r \in 1..max_retrieved_count |->
                     convert(RankColumn(sim_batches, r - 1))]
             failing == {r \in 1..max_retrieved_count :
                            similar_sentences[r].err # "none"}
         IN  IF base.err # "none" THEN Raised(base.err)
             ELSE IF failing # {} THEN Raised(similar_sentences[Min(failing)].err)
             ELSE [err |-> "none",
                   source |-> base.source,
                   target |-> base.target,
                   similar_sentences |-> similar_sentences]

(***************************************************************************)
(* Minibatches the converters are applied to.  The id arrays have every    *)
(* length up to MaxLen and ids that differ from one position and one row   *)
(* to the next, so that a moved or altered id shows.                       *)
(***************************************************************************)
Sentence(len, seed) == [p \in 1..len |-> 2 + ((seed + 2 * p) % 5)]

PlainRows(i) ==
    { <<Sentence(ls, i), Sentence(lt, i + 1)>> : ls \in 0..MaxLen, lt \in 0..MaxLen }

SimilarData(i, k, shift) ==
    [j \in 1..k |->
        <<Sentence((i + j + shift) % (MaxLen + 1), i + j),
          Sentence((i + 2 * j + shift + 1) % (MaxLen + 1), j)>>]

AugmentedRows(i, shift) ==
    { <<Sentence(ls, i), Sentence((ls + i) % (MaxLen + 1), i + 1),
        SimilarData(i, k, shift)>> : ls \in 0..MaxLen, k \in 0..MaxRetrieved }

RECURSIVE PlainBatchesOf(_)
PlainBatchesOf(n) ==
    IF n = 0 THEN { <<>> }
    ELSE { Append(mb, row) : mb \in PlainBatchesOf(n - 1), row \in PlainRows(n) }

RECURSIVE AugmentedBatchesOf(_, _)
AugmentedBatchesOf(n, shift) ==
    IF n = 0 THEN { <<>> }
    ELSE { Append(mb, row) :
             mb \in AugmentedBatchesOf(n - 1, shift), row \in AugmentedRows(n, shift) }

\* minibatches whose retrieved sets hold an entry that is no pair: a triple
\* alone at its rank, a triple next to a pair, a single array
MalformedMinibatches ==
    LET s == Sentence(1, 0)
        pair == <<Sentence(1, 1), Sentence(2, 2)>>
        triple == <<Sentence(1, 1), Sentence(2, 2), Sentence(1, 3)>>
    IN  { << <<s, s, <<triple>>>> >>,
          << <<s, s, <<pair, triple>>>>, <<s, s, <<pair>>>> >>,
          << <<s, s, <<triple>>>>, <<s, s, <<pair>>>> >>,
          << <<s, s, <<pair, <<s>>>>>>, <<s, s, <<>>>> >> }

PlainMinibatches == UNION { PlainBatchesOf(n) : n \in 1..MaxBatch }

AugmentedMinibatches ==
    UNION { AugmentedBatchesOf(n, shift) : n \in 1..MaxBatch, shift \in 0..1 }

(***************************************************************************)
(* Text.  A line of a text file is a sequence of characters (without its   *)
(* line break); a file is a record telling whether the path exists and     *)
(* holding its lines.  Characters are ASCII.                               *)
(***************************************************************************)
\* the characters str.strip() and str.split() take for whitespace:
\* blank, \t, \n, \r, \f, then the characters 0x0B, 0x1C, 0x1D, 0x1E, 0x1F
Whitespace == {" ", "\t", "\n", "\r", "\f", "", "", "", "", ""}

IsSpace(c) == c \in Whitespace

RECURSIVE LStrip(_)
LStrip(line) ==
    IF line # <<>> /\ IsSpace(Head(line)) THEN LStrip(Tail(line)) ELSE line

RECURSIVE RStrip(_)
RStrip(line) ==
    IF line # <<>> /\ IsSpace(line[Len(line)])
    THEN RStrip(SubSeq(line, 1, Len(line) - 1)) ELSE line

\* str.strip()
Strip(line) == RStrip(LStrip(line))

\* str.split(): the maximal runs of non-space characters, in order
RECURSIVE SplitFrom(_, _, _)
SplitFrom(line, word, acc) ==
    IF line = <<>> THEN (IF word = <<>> THEN acc ELSE Append(acc, word))
    ELSE IF IsSpace(Head(line))
         THEN SplitFrom(Tail(line), <<>>, IF word = <<>> THEN acc ELSE Append(acc, word))
         ELSE SplitFrom(Tail(line), Append(word, Head(line)), acc)

Split(line) == SplitFrom(line, <<>>, <<>>)

\* the words of a line, written with a separator between them
RECURSIVE JoinWith(_, _)
JoinWith(separator, words) ==
    IF words = <<>> THEN <<>>
    ELSE IF Len(words) = 1 THEN words[1]
    ELSE words[1] \o separator \o JoinWith(separator, Tail(words))

Join(words) == JoinWith(<<" ">>, words)

\* a path argument: a file with its lines, a path that names no file, or
\* None where the argument is Optional
File(lines) == [given |-> TRUE, exists |-> TRUE, lines |-> lines]
NoFile == [given |-> TRUE, exists |-> FALSE, lines |-> <<>>]
None == [given |-> FALSE, exists |-> FALSE, lines |-> <<>>]

(***************************************************************************)
(* load_vocab(vocab_file, size).                                           *)
(***************************************************************************)
UnkToken == <<"<", "U", "N", "K", ">">>
EosToken == <<"<", "E", "O", "S", ">">>

\* {word: index for index, word in enumerate(words) if index < size}:
\* a later occurrence of a word replaces the index of an earlier one
DictOfWords(words, n) ==
    LET kept == {k \in 1..Len(words) : k - 1 < n}
    IN  [w \in {words[k] : k \in kept} |->
            Max({k - 1 : k \in {x \in kept : words[x] = w}})]

load_vocab(file, n) ==
    IF ~file.exists THEN Raised("AssertionError")
    ELSE LET words == <<UnkToken, EosToken>>
                          \o [k \in 1..Len(file.lines) |-> Strip(file.lines[k])]
             d == DictOfWords(words, n)
         IN  IF ~(n <= Len(words)) THEN Raised("AssertionError")
             ELSE IF UnkToken \notin DOMAIN d THEN Raised("KeyError")
             ELSE IF d[UnkToken] # UNK THEN Raised("AssertionError")
             ELSE IF EosToken \notin DOMAIN d THEN Raised("KeyError")
             ELSE IF d[EosToken] # EOS THEN Raised("AssertionError")
             ELSE [err |-> "none", vocab |-> d]

(***************************************************************************)
(* Word-list files: up to MaxVocabLines lines, among them a repeated       *)
(* word, a word with surrounding blanks, a word after a tab, an empty line *)
(* and the reserved tokens.                                                *)
(***************************************************************************)
VocabLines ==
    { <<"a">>, <<"b">>, <<" ", "a", " ">>, <<"\t", "b">>, <<>>, UnkToken, EosToken }

VocabFiles ==
    {NoFile} \cup
    { File(ls) : ls \in UNION { [1..n -> VocabLines] : n \in 0..MaxVocabLines } }

(***************************************************************************)
(* int(token): the blanks, \t, \n, \r, \f and 0x0B around the text are     *)
(* dropped (the characters 0x1C to 0x1F are not); then an optional sign    *)
(* and decimal digits, which single underscores may separate; any other    *)
(* text raises ValueError.                                                 *)
(***************************************************************************)
DigitChars == <<"0", "1", "2", "3", "4", "5", "6", "7", "8", "9">>
IsDigit(c) == \E d \in 1..10 : DigitChars[d] = c
DigitValue(c) == (CHOOSE d \in 1..10 : DigitChars[d] = c) - 1

RECURSIVE DigitsValue(_, _)
DigitsValue(chars, acc) ==
    IF chars = <<>> THEN acc
    ELSE DigitsValue(Tail(chars), 10 * acc + DigitValue(Head(chars)))

IntSpace == {" ", "\t", "\n", "\r", "\f", ""}

RECURSIVE IntLStrip(_)
IntLStrip(text) ==
    IF text # <<>> /\ Head(text) \in IntSpace THEN IntLStrip(Tail(text)) ELSE text

RECURSIVE IntRStrip(_)
IntRStrip(text) ==
    IF text # <<>> /\ text[Len(text)] \in IntSpace
    THEN IntRStrip(SubSeq(text, 1, Len(text) - 1)) ELSE text

ParseInt(token) ==
    LET text == IntRStrip(IntLStrip(token))
        signed == text # <<>> /\ Head(text) \in {"-", "+"}
        negative == signed /\ Head(text) = "-"
        body == IF signed THEN Tail(text) ELSE text
        \* digits, with single underscores between two of them
        wellFormed ==
            /\ body # <<>>
            /\ \A p \in 1..Len(body) :
                  \/ IsDigit(body[p])
                  \/ /\ body[p] = "_"
                     /\ 1 < p /\ p < Len(body)
                     /\ IsDigit(body[p - 1]) /\ IsDigit(body[p + 1])
        digits == SelectSeq(body, IsDigit)
    IN  IF ~wellFormed THEN Raised("ValueError")
        ELSE [err |-> "none",
              value |-> IF negative THEN 0 - DigitsValue(digits, 0)
                        ELSE DigitsValue(digits, 0)]

\* the decimal text of an integer, as the index file holds it
RECURSIVE DigitsOf(_)
DigitsOf(n) ==
    IF n < 10 THEN <<DigitChars[n + 1]>>
    ELSE Append(DigitsOf(n \div 10), DigitChars[(n % 10) + 1])

FormatInt(n) == IF n < 0 THEN <<"-">> \o DigitsOf(0 - n) ELSE DigitsOf(n)

(***************************************************************************)
(* load_data(source, target, source_vocab, target_vocab).                  *)
(***************************************************************************)
\* np.array([vocab.get(w, UNK) for w in words], 'i')
IdsOf(words, v) ==
    [k \in 1..Len(words) |-> IF words[k] \in DOMAIN v THEN v[words[k]] ELSE UNK]

load_data(source, target, source_vocab, target_vocab) ==
    IF ~source.exists \/ ~target.exists THEN Raised("AssertionError")
    ELSE IF Len(source.lines) # Len(target.lines) THEN Raised("AssertionError")
    ELSE [err |-> "none",
          data |-> [i \in 1..Len(source.lines) |->
                      <<IdsOf(Split(Strip(source.lines[i])), source_vocab),
                        IdsOf(Split(Strip(target.lines[i])), target_vocab)>>]]

(***************************************************************************)
(* The loop of load_train_data and load_validation_data over the index     *)
(* file (lines 247-252 and 295-300).                                       *)
(***************************************************************************)
\* list[index] of Python: a negative index counts from the end
InRange(list, index) == 0 - Len(list) <= index /\ index < Len(list)
PyIndex(list, index) ==
    IF index >= 0 THEN list[index + 1] ELSE list[Len(list) + index + 1]

\* [int(i) for i in line.strip().split()][1:], then [pool[index] ...]
SimilarDataOfLine(line, pool) ==
    LET tokens == Split(Strip(line))
        parsed == [t \in 1..Len(tokens) |-> ParseInt(tokens[t])]
        indices == [t \in 1..(Len(tokens) - 1) |-> parsed[t + 1].value]
    IN  IF \E t \in 1..Len(tokens) : parsed[t].err # "none" THEN Raised("ValueError")
        ELSE IF \E t \in 1..Len(indices) : ~InRange(pool, indices[t])
             THEN Raised("IndexError")
        ELSE [err |-> "none",
              similar_data |-> [t \in 1..Len(indices) |-> PyIndex(pool, indices[t])]]

Attach(data, pool, similar_indices) ==
    IF Len(data) # Len(similar_indices.lines) THEN Raised("AssertionError")
    ELSE LET rows == [i \in 1..Len(data) |->
                         SimilarDataOfLine(similar_indices.lines[i], pool)]
             failing == {i \in 1..Len(data) : rows[i].err # "none"}
         IN  IF failing # {} THEN Raised(rows[Min(failing)].err)
             ELSE [err |-> "none",
                   fulldata |-> [i \in 1..Len(data) |->
                                   <<data[i][1], data[i][2], rows[i].similar_data>>]]

\* similar_indices.exists() on None raises AttributeError
CheckPaths(paths, similar_indices) ==
    IF \E k \in 1..Len(paths) : ~paths[k].exists THEN "AssertionError"
    ELSE IF ~similar_indices.given THEN "AttributeError"
    ELSE IF ~similar_indices.exists THEN "AssertionError"
    ELSE "none"

(***************************************************************************)
(* load_train_data: the reference pool is the corpus being augmented.      *)
(***************************************************************************)
load_train_data(source, target, source_vocab, target_vocab, similar_indices) ==
    LET checked == CheckPaths(<<source, target>>, similar_indices)
        data == load_data(source, target, source_vocab, target_vocab)
    IN  IF checked # "none" THEN Raised(checked)
        ELSE IF data.err # "none" THEN data
        ELSE Attach(data.data, data.data, similar_indices)

(***************************************************************************)
(* load_validation_data: the reference pool is the training corpus.        *)
(***************************************************************************)
\* a variant that retrieves from the corpus being augmented
ValidationPoolIsItself(train_data, data) == data
ValidationPool(train_data, data) == train_data

load_validation_data(train_source, train_target, source, target, source_vocab, target_vocab, similar_indices) ==
    LET checked == CheckPaths(<<train_source, train_target, source, target>>,
                              similar_indices)
        train_data == load_data(train_source, train_target, source_vocab, target_vocab)
        data == load_data(source, target, source_vocab, target_vocab)
    IN  IF checked # "none" THEN Raised(checked)
        ELSE IF train_data.err # "none" THEN train_data
        ELSE IF data.err # "none" THEN data
        ELSE Attach(data.data, ValidationPool(train_data.data, data.data),
                    similar_indices)

(***************************************************************************)
(* Corpora and index files the loaders are applied to.  The vocabularies   *)
(* are those load_vocab builds from two word lists; the corpus lines are   *)
(* pairwise different, some with unknown words, with blanks and tabs       *)
(* around them and with one or several blanks or a tab between the words.  *)
(***************************************************************************)
W(a) == <<a>>
SourceWords == <<W("t") \o W("h") \o W("e"), W("c") \o W("a") \o W("t")>>
TargetWords == <<W("l") \o W("e"), W("c") \o W("h") \o W("a") \o W("t")>>
Sat == W("s") \o W("a") \o W("t")

SourceVocab == load_vocab(File(SourceWords), 4).vocab
TargetVocab == load_vocab(File(TargetWords), 4).vocab

SourceSentences ==
    << <<SourceWords[1], SourceWords[2], Sat>>,
       <<SourceWords[2]>>,
       <<Sat, SourceWords[1]>>,
       <<SourceWords[1], SourceWords[1]>>,
       <<>>,
       <<SourceWords[2], SourceWords[1]>>,
       <<Sat>> >>
TargetSentences ==
    << <<TargetWords[1], TargetWords[2]>>,
       <<TargetWords[2], Sat>>,
       <<>>,
       <<TargetWords[1]>>,
       <<TargetWords[2], TargetWords[2], TargetWords[1]>>,
       <<Sat, Sat>>,
       <<TargetWords[2]>> >>

Separators == << <<" ">>, <<"\t">>, <<" ", " ">>, <<" ", "\t">> >>
Separator(k) == Separators[((k - 1) % 4) + 1]

SourceLine(k) ==
    <<" ">> \o JoinWith(Separator(k), SourceSentences[((k - 1) % 7) + 1])
TargetLine(k) ==
    <<"\t">> \o JoinWith(Separator(k + 1), TargetSentences[((k - 1) % 7) + 1])
        \o <<" ">>

TrainingSource(n) == File([i \in 1..n |-> SourceLine(i)])
TrainingTarget(n) == File([i \in 1..n |-> TargetLine(i)])
ValidationSource(n) == File([i \in 1..n |-> SourceLine(i + MaxCorpus + 1)])
ValidationTarget(n) == File([i \in 1..n |-> TargetLine(i + MaxCorpus + 1)])

\* a line of the index file: the example's own id, then the indices
IndexLine(self, indices) ==
    Join([t \in 1..(Len(indices) + 1) |->
             IF t = 1 THEN FormatInt(self) ELSE FormatInt(indices[t - 1])])

IndexLists(poolSize) ==
    UNION { [1..k -> (0 - poolSize - 1)..poolSize] : k \in 0..MaxRetrieved }

\* the integers of each line: line `free` holds any list of indices, the
\* other lines name one neighbour in the pool
IndexTables(n, poolSize) ==
    IF n = 0 THEN { <<>> }
    ELSE { [i \in 1..n |-> IF i = free THEN list ELSE <<i % poolSize>>] :
             free \in 1..n, list \in IndexLists(poolSize) }

IndexFile(table) == File([i \in 1..Len(table) |-> IndexLine(i - 1, table[i])])

\* the same integers written otherwise: between tabs, or with a plus sign,
\* a leading zero and an underscore
FormatSigned(n) == IF n < 0 THEN FormatInt(n) ELSE <<"+", "0", "_">> \o DigitsOf(n)

IndexLineStyled(self, indices, style) ==
    LET numbers == <<self>> \o indices
    IN  IF style = "tabs"
        THEN <<"\t">> \o JoinWith(<<"\t">>, [t \in 1..Len(numbers) |-> FormatInt(numbers[t])])
                 \o <<" ", "\t">>
        ELSE JoinWith(<<" ", " ">>, [t \in 1..Len(numbers) |-> FormatSigned(numbers[t])])

IndexFileStyled(table, style) ==
    File([i \in 1..Len(table) |-> IndexLineStyled(i - 1, table[i], style)])

\* an index file one of whose tokens is no integer
MalformedIndexFile(n) ==
    File([i \in 1..n |-> IF i = n THEN W("0") \o W(" ") \o W("x")
                         ELSE IndexLine(i - 1, <<0>>)])

NoCorpus ==
    [mode |-> "none", training_source |-> NoFile, training_target |-> NoFile,
     validation_source |-> NoFile, validation_target |-> NoFile,
     similar_indices |-> NoFile, table |-> <<>>]

AllIndexTables(poolSize) == UNION {IndexTables(k, poolSize) : k \in 0..MaxCorpus}

TrainCorpus(n, table) ==
    [mode |-> "train",
     training_source |-> TrainingSource(n), training_target |-> TrainingTarget(n),
     validation_source |-> NoFile, validation_target |-> NoFile,
     similar_indices |-> IndexFile(table), table |-> table]

ValidationCorpus(n, v, table) ==
    [mode |-> "validation",
     training_source |-> TrainingSource(n), training_target |-> TrainingTarget(n),
     validation_source |-> ValidationSource(v), validation_target |-> ValidationTarget(v),
     similar_indices |-> IndexFile(table), table |-> table]

WithTable(base, table) ==
    [base EXCEPT !.similar_indices = IndexFile(table), !.table = table]

TrainCorpora ==
    UNION { LET base == TrainCorpus(n, <<>>)
            IN  { WithTable(base, table) : table \in AllIndexTables(n) } :
            n \in 1..MaxCorpus }

\* a validation corpus of v lines with an index file of as many lines, or
\* of one line less than the longest corpus
ValidationCorpora ==
    UNION { UNION { LET base == ValidationCorpus(n, v, <<>>)
                    IN  { WithTable(base, table) :
                            table \in IndexTables(v, n) \cup IndexTables(MaxCorpus - 1, n) } :
                    v \in {1, MaxCorpus} } : n \in 1..MaxCorpus }

\* the index files written in the other styles
StyledCorpora ==
    { [TrainCorpus(MaxCorpus, table) EXCEPT
          !.similar_indices = IndexFileStyled(table, style)] :
        table \in IndexTables(MaxCorpus, MaxCorpus), style \in {"tabs", "signed"} }
    \cup
    { [ValidationCorpus(MaxCorpus, 1, table) EXCEPT
          !.similar_indices = IndexFileStyled(table, style)] :
        table \in IndexTables(1, MaxCorpus), style \in {"tabs", "signed"} }

\* files that are missing, misaligned, not given or malformed
BrokenCorpora ==
    LET base == [mode |-> "train",
                 training_source |-> TrainingSource(2),
                 training_target |-> TrainingTarget(2),
                 validation_source |-> NoFile, validation_target |-> NoFile,
                 similar_indices |-> IndexFile(<<<<1>>, <<0>>>>),
                 table |-> <<<<1>>, <<0>>>>]
    IN  { [base EXCEPT !.training_target = TrainingTarget(1)],
          [base EXCEPT !.training_source = NoFile],
          [base EXCEPT !.similar_indices = NoFile, !.table = <<>>],
          [base EXCEPT !.similar_indices = None, !.table = <<>>],
          [base EXCEPT !.similar_indices = MalformedIndexFile(2), !.table = <<>>],
          [base EXCEPT !.mode = "validation"],
          [base EXCEPT !.mode = "validation",
                       !.validation_source = ValidationSource(2),
                       !.validation_target = ValidationTarget(1)],
          [base EXCEPT !.mode = "validation",
                       !.validation_source = ValidationSource(2),
                       !.validation_target = ValidationTarget(2),
                       !.similar_indices = None, !.table = <<>>] }

(***************************************************************************)
(* chainer.iterators.SerialIterator(dataset, batch_size, repeat=False,     *)
(* shuffle=False), as CalculateBleu and the Evaluator use it: after        *)
(* reset() it yields the dataset in order, batch_size examples at a time.  *)
(***************************************************************************)
BatchAt(dataset, position, batch_size) ==
    SubSeq(dataset, position + 1,
           IF position + batch_size < Len(dataset) THEN position + batch_size
           ELSE Len(dataset))

ApplyConverter(converter, mb) ==
    IF converter = "convert" THEN convert(mb)
    ELSE convert_with_similar_sentences(mb)

(***************************************************************************)
(* model.translate(source) of segnmt.models.encdec: one id sequence per    *)
(* row of the source block, each terminated by EOS.                        *)
(***************************************************************************)
TranslatedSentences ==
    { Append(Sentence(n, s), EOS) : n \in 0..MaxLen, s \in 0..1 }

TranslateResults(source) == [1..Len(source) -> TranslatedSentences]

(***************************************************************************)
(* CalculateBleu.__call__.                                                 *)
(***************************************************************************)
\* a variant that keeps the last token
StripNothing(sentence) == sentence
\* sentence.tolist()[:-1]
StripLast(sentence) ==
    IF Len(sentence) = 0 THEN sentence ELSE SubSeq(sentence, 1, Len(sentence) - 1)

NoScorer ==
    [dataset |-> <<>>, batch_size |-> 0, converter |-> "none", key |-> "none",
     status |-> "none", err |-> "none", current_position |-> 0,
     list_of_references |-> <<>>, hypotheses |-> <<>>, translated |-> <<>>,
     reported |-> <<>>]

NewScorer(dataset, batch_size, converter, key) ==
    [NoScorer EXCEPT !.dataset = dataset, !.batch_size = batch_size,
                     !.converter = converter, !.key = key, !.status = "constructed"]

\* lines 86-88
ScorerReset(s) ==
    [s EXCEPT !.status = "iterating", !.current_position = 0,
              !.list_of_references = <<>>, !.hypotheses = <<>>, !.translated = <<>>]

\* line 95, source, _ = self.converter(minibatch, self.device): the
\* converter may raise, and the unpacking into two names raises ValueError
\* unless the converter returned two values
ResultArity(converter) == IF converter = "convert" THEN 2 ELSE 3

UnpackSource(converter, mb) ==
    LET conv == ApplyConverter(converter, mb)
    IN  IF conv.err # "none" THEN Raised(conv.err)
        ELSE IF ResultArity(converter) # 2 THEN Raised("ValueError")
        ELSE [err |-> "none", source |-> conv.source]

\* lines 91-100, for the minibatch at the iterator's position and the
\* sequences translate returned for it
ScorerMinibatch(s, results) ==
    LET mb == BatchAt(s.dataset, s.current_position, s.batch_size)
        references == [i \in 1..Len(mb) |-> <<mb[i][2]>>]
        conv == UnpackSource(s.converter, mb)
        \* line 90: the iterator has yielded the minibatch
        yielded == [s EXCEPT !.current_position = @ + Len(mb)]
        advanced == [yielded EXCEPT !.list_of_references = @ \o references]
    IN  IF ZipArity(mb) < 2
        THEN [yielded EXCEPT !.status = "raised", !.err = "IndexError"]
        ELSE IF conv.err # "none"
             THEN [advanced EXCEPT !.status = "raised", !.err = conv.err]
        ELSE [advanced EXCEPT
                 !.translated = @ \o results,
                 !.hypotheses = @ \o [i \in 1..Len(results) |-> StripLast(results[i])]]

\* lines 101-106: corpus_bleu asserts one hypothesis per reference list
ScorerReport(s) ==
    IF Len(s.list_of_references) # Len(s.hypotheses)
    THEN [s EXCEPT !.status = "raised", !.err = "AssertionError"]
    ELSE [s EXCEPT !.status = "reported", !.reported = Append(@, s.key)]

\* whether a pass of the scorer over the dataset raises, and what
RECURSIVE ScorerPassError(_, _, _, _)
ScorerPassError(dataset, batch_size, converter, position) ==
    IF position >= Len(dataset) THEN "none"
    ELSE LET mb == BatchAt(dataset, position, batch_size)
             conv == UnpackSource(converter, mb)
         IN  IF ZipArity(mb) < 2 THEN "IndexError"
             ELSE IF conv.err # "none" THEN conv.err
             ELSE ScorerPassError(dataset, batch_size, converter, position + Len(mb))

\* extensions.Evaluator over the same data: each minibatch goes through the
\* converter, whose whole result is handed to the model
RECURSIVE EvaluatorPassError(_, _, _, _)
EvaluatorPassError(dataset, batch_size, converter, position) ==
    IF position >= Len(dataset) THEN "none"
    ELSE LET mb == BatchAt(dataset, position, batch_size)
             conv == ApplyConverter(converter, mb)
         IN  IF conv.err # "none" THEN conv.err
             ELSE EvaluatorPassError(dataset, batch_size, converter, position + Len(mb))

(***************************************************************************)
(* train(args).  The arguments that matter here: the two index files       *)
(* (Optional), whether validation_source and validation_target are given,  *)
(* extension_trigger, epoch, minibatch_size, resume_file; n_train and      *)
(* n_valid are the line counts of the corpora.                             *)
(***************************************************************************)
EvaluationMultiple == 5
SnapshotMultiple == 50

NoState == [iteration |-> -1, epoch |-> -1, optimizer_t |-> -1, rng |-> -1]

\* what Trainer.serialize writes and load_npz restores: the updater's
\* iteration, the training iterator's epoch, position and order, the
\* optimizer.  numpy's random state is not part of it.
NewTrainer ==
    [iteration |-> 0, epoch |-> 0, current_position |-> 0, order |-> <<>>,
     optimizer_t |-> 0]

NoSnapshot ==
    [iteration |-> -1, epoch |-> -1, current_position |-> -1, order |-> <<>>,
     optimizer_t |-> -1]

\* np.random.permutation(n): the orders the generator can draw
Orders(n) ==
    { o \in [1..n -> 1..n] : \A i, j \in 1..n : o[i] = o[j] => i = j }

NoArgs ==
    [similar_sentence_indices |-> None, validation |-> FALSE,
     similar_sentence_indices_validation |-> None,
     extension_trigger |-> 0, epoch |-> 0, minibatch_size |-> 0,
     n_train |-> 0, n_valid |-> 0, resume_file |-> NoSnapshot]

\* index files in which line i names i-1 neighbours, so that the retrieved
\* sets of a minibatch differ in size
NeighbourTable(n, poolSize) ==
    [i \in 1..n |-> [j \in 1..(i - 1) |-> (i + j) % poolSize]]

TrainIndexFile(n) == IndexFile(NeighbourTable(n, n))
ValidationIndexFile(n, poolSize) == IndexFile(NeighbourTable(n, poolSize))

\* the sizes of the training corpus and of the minibatch: minibatches that
\* divide the epoch, that are the epoch, and that run over its end
Shapes == { <<2, 1>>, <<2, 2>>, <<3, 2>> }

ArgsSet ==
    { [similar_sentence_indices |->
           IF indexed THEN TrainIndexFile(shape[1]) ELSE None,
       validation |-> validation,
       similar_sentence_indices_validation |->
           IF validation /\ indexedValidation THEN ValidationIndexFile(2, shape[1])
           ELSE None,
       extension_trigger |-> k, epoch |-> NumEpochs, minibatch_size |-> shape[2],
       n_train |-> shape[1], n_valid |-> IF validation THEN 2 ELSE 0,
       resume_file |-> NoSnapshot] :
      indexed \in BOOLEAN, validation \in BOOLEAN, indexedValidation \in BOOLEAN,
      k \in 1..MaxTrigger, shape \in Shapes }

\* lines 328-334
TrainingData(a) ==
    load_train_data(TrainingSource(a.n_train), TrainingTarget(a.n_train),
                    SourceVocab, TargetVocab, a.similar_sentence_indices)

\* lines 375-383
ValidationData(a) ==
    load_validation_data(TrainingSource(a.n_train), TrainingTarget(a.n_train),
                         ValidationSource(a.n_valid), ValidationTarget(a.n_valid),
                         SourceVocab, TargetVocab,
                         a.similar_sentence_indices_validation)

\* lines 338-340
Converter(a) ==
    IF a.similar_sentence_indices.given THEN "convert_with_similar_sentences"
    ELSE "convert"

\* the converter line 402 hands to CalculateBleu
BleuConverter == "convert"

(***************************************************************************)
(* The extensions train() registers that act on the state modelled here,   *)
(* in the order Trainer.run calls them: by priority (Evaluator and         *)
(* CalculateBleu are PRIORITY_WRITER, LogReport and the translate sample   *)
(* PRIORITY_READER, snapshot -100), then by registration.                  *)
(***************************************************************************)
Extensions(a) ==
    IF a.validation THEN <<"evaluator", "bleu", "log", "translate", "snapshot">>
    ELSE <<"log", "snapshot">>

\* the triggers of lines 345, 356, 400, 404, 433
Period(a, e) ==
    IF e = "log" THEN a.extension_trigger
    ELSE IF e = "snapshot" THEN a.extension_trigger * SnapshotMultiple
    ELSE a.extension_trigger * EvaluationMultiple

\* IntervalTrigger((period, 'iteration'))
Due(a, e, iteration) == iteration > 0 /\ iteration % Period(a, e) = 0

\* the training iterator (repeat=True, shuffle=True): the minibatch it
\* yields at a position follows the order of the epoch and, past its end,
\* goes on with the first examples of the order drawn for the next epoch
TrainingBatch(dataset, order, new_order, position, batch_size) ==
    [i \in 1..batch_size |->
        IF position + i <= Len(dataset) THEN dataset[order[position + i]]
        ELSE dataset[new_order[position + i - Len(dataset)]]]

\* what an extension raises when it is called
ExtensionError(a, e, held_out) ==
    IF e = "evaluator"
    THEN EvaluatorPassError(held_out, a.minibatch_size, Converter(a), 0)
    ELSE IF e = "bleu"
    THEN ScorerPassError(held_out, a.minibatch_size, BleuConverter, 0)
    ELSE IF e = "translate"
    THEN ApplyConverter(Converter(a), <<held_out[1]>>).err
    ELSE "none"

\* rng counts the draws made from numpy's generator since the process
\* started (identical seeding: every process starts it in the same state)
TrainingState ==
    [iteration |-> trainer.iteration, epoch |-> trainer.epoch,
     optimizer_t |-> trainer.optimizer_t, rng |-> rng]

(***************************************************************************)
(* The parts of the state a specification does not use.                    *)
(***************************************************************************)
IdleConvert == minibatch = <<>> /\ converted = NotCalled
IdleVocab == vocab_file = NoFile /\ size = 0 /\ vocab = NotCalled
IdleLoad == corpus = NoCorpus /\ fulldata = NotCalled
IdleTrain ==
    /\ args = NoArgs /\ pc = "none" /\ error = "none"
    /\ training_data = NotCalled /\ validation_data = NotCalled
    /\ trainer = NewTrainer /\ rng = 0 /\ ext = 0 /\ fired = {}
    /\ snapshots = {} /\ run = 0 /\ uninterrupted = NoState
IdleScorer == scorer = NoScorer

(***************************************************************************)
(* The converters, each applied once to a minibatch.                       *)
(***************************************************************************)
InitConvert ==
    /\ \/ minibatch \in PlainMinibatches
       \/ minibatch \in AugmentedMinibatches
       \/ minibatch \in MalformedMinibatches
       \/ minibatch = <<>>
    /\ converted = NotCalled
    /\ IdleVocab /\ IdleLoad /\ IdleTrain /\ IdleScorer

Convert ==
    /\ converted.call = "none"
    /\ converted' = [call |-> "convert"] @@ convert(minibatch)
    /\ UNCHANGED <<minibatch, vocabVars, loadVars, trainVars, scorer>>

ConvertWithSimilarSentences ==
    /\ converted.call = "none"
    /\ converted' = [call |-> "convert_with_similar_sentences"]
                        @@ convert_with_similar_sentences(minibatch)
    /\ UNCHANGED <<minibatch, vocabVars, loadVars, trainVars, scorer>>

NextConvert == Convert \/ ConvertWithSimilarSentences

SpecConvert == InitConvert /\ [][NextConvert]_vars

(***************************************************************************)
(* What the claims about the converters say, stated on the blocks.         *)
(***************************************************************************)
IsPlain(mb) == Len(mb) > 0 /\ \A i \in 1..Len(mb) : Len(mb[i]) = 2
\* rows of a source, a target and a retrieved set of Examples
IsAugmented(mb) ==
    /\ Len(mb) > 0
    /\ \A i \in 1..Len(mb) :
          /\ Len(mb[i]) = 3
          /\ \A j \in 1..Len(mb[i][3]) : Len(mb[i][3][j]) = 2

\* row holds the ids of sentence, then EOS, then nothing but PAD
RowIsPaddedForm(row, sentence) ==
    /\ Len(row) >= Len(sentence) + 1
    /\ \A p \in 1..Len(row) :
          row[p] = IF p <= Len(sentence) THEN sentence[p]
                   ELSE IF p = Len(sentence) + 1 THEN EOS ELSE PAD

BlockIsPadded(block, sentences) ==
    /\ Len(block) = Len(sentences)
    /\ \A i \in 1..Len(block) :
          /\ Len(block[i]) = Max({Len(sentences[k]) : k \in 1..Len(sentences)}) + 1
          /\ RowIsPaddedForm(block[i], sentences[i])

\* C1: for every non-empty minibatch of Examples, convert returns a source
\* block and a target block with one row per Example and width max(L_i)+1,
\* where row i holds the i-th sequence unchanged, EOS at position L_i and
\* PAD at every later position (source and target independently).
C1_PaddingCorrect ==
    (converted.call = "convert" /\ IsPlain(minibatch)) =>
        /\ converted.err = "none"
        /\ BlockIsPadded(converted.source, Column(minibatch, 1))
        /\ BlockIsPadded(converted.target, Column(minibatch, 2))

\* a converted minibatch of two Examples whose source lengths differ and
\* whose target lengths differ, one source being empty
C1_Witness ==
    /\ converted.call = "convert"
    /\ IsPlain(minibatch)
    /\ Len(minibatch) = 2
    /\ Len(minibatch[1][1]) = 0
    /\ Len(minibatch[2][1]) = MaxLen
    /\ Len(minibatch[1][2]) > Len(minibatch[2][2])
    /\ converted.err = "none"

\* C2: for every augmented minibatch, convert_with_similar_sentences
\* returns as many ranked block pairs as the largest retrieved set of the
\* batch (none when that is 0); row b of the rank-r pair is the padded form
\* of b's r-th retrieved Example when b has more than r retrievals, and of
\* the empty placeholder (EOS, then PAD only) otherwise.
C2_RetrievalAligned ==
    (converted.call = "convert_with_similar_sentences" /\ IsAugmented(minibatch)) =>
        /\ converted.err = "none"
        /\ Len(converted.similar_sentences) =
               Max({Len(minibatch[b][3]) : b \in 1..Len(minibatch)})
        /\ \A r \in 1..Len(converted.similar_sentences) :
              LET pair == converted.similar_sentences[r]
              IN  /\ pair.err = "none"
                  /\ Len(pair.source) = Len(minibatch)
                  /\ Len(pair.target) = Len(minibatch)
                  /\ \A b \in 1..Len(minibatch) :
                        IF Len(minibatch[b][3]) >= r
                        THEN /\ RowIsPaddedForm(pair.source[b], minibatch[b][3][r][1])
                             /\ RowIsPaddedForm(pair.target[b], minibatch[b][3][r][2])
                        ELSE /\ RowIsPaddedForm(pair.source[b], <<>>)
                             /\ RowIsPaddedForm(pair.target[b], <<>>)

\* a converted augmented minibatch of two members with 2 and 0 retrievals
\* (both ranks hold a placeholder row next to a real one of positive length)
C2_Witness ==
    /\ converted.call = "convert_with_similar_sentences"
    /\ IsAugmented(minibatch)
    /\ Len(minibatch) = 2
    /\ Len(minibatch[1][3]) = 2
    /\ Len(minibatch[2][3]) = 0
    /\ minibatch[1][3][1] # minibatch[1][3][2]
    /\ Len(minibatch[1][3][2][1]) > 0
    /\ converted.err = "none"
    /\ Len(converted.similar_sentences) = 2

(***************************************************************************)
(* load_vocab, applied once to a word-list file and a requested size.      *)
(***************************************************************************)
InitVocab ==
    /\ vocab_file \in VocabFiles
    /\ size \in 0..(MaxVocabLines + 3)
    /\ vocab = NotCalled
    /\ IdleConvert /\ IdleLoad /\ IdleTrain /\ IdleScorer

LoadVocab ==
    /\ vocab.call = "none"
    /\ vocab' = [call |-> "load_vocab"] @@ load_vocab(vocab_file, size)
    /\ UNCHANGED <<vocab_file, size, convVars, loadVars, trainVars, scorer>>

NextVocab == LoadVocab

SpecVocab == InitVocab /\ [][NextVocab]_vars

\* C5: whenever load_vocab returns a vocabulary for a requested size N, the
\* mapping has exactly N entries, its ids are exactly {0, ..., N-1}, id 0
\* belongs to the UNK token and id 1 to the EOS token; and load_vocab fails
\* when N exceeds the number of available words (the two reserved tokens
\* and the lines of the file).
C5_VocabularyDense ==
    (vocab.call = "load_vocab") =>
        /\ vocab.err = "none" =>
              /\ Cardinality(DOMAIN vocab.vocab) = size
              /\ {vocab.vocab[w] : w \in DOMAIN vocab.vocab} = 0..(size - 1)
              /\ UnkToken \in DOMAIN vocab.vocab /\ vocab.vocab[UnkToken] = 0
              /\ EosToken \in DOMAIN vocab.vocab /\ vocab.vocab[EosToken] = 1
        /\ (vocab_file.exists /\ size > Len(vocab_file.lines) + 2) => vocab.err # "none"

(***************************************************************************)
(* The retrieval attacher, applied once to a corpus and its index file.    *)
(***************************************************************************)
InitLoad ==
    /\ corpus \in TrainCorpora \cup ValidationCorpora \cup StyledCorpora
                    \cup BrokenCorpora
    /\ fulldata = NotCalled
    /\ IdleConvert /\ IdleVocab /\ IdleTrain /\ IdleScorer

LoadTrainData ==
    /\ fulldata.call = "none"
    /\ corpus.mode = "train"
    /\ fulldata' = [call |-> "load_train_data"] @@
           load_train_data(corpus.training_source, corpus.training_target,
                           SourceVocab, TargetVocab, corpus.similar_indices)
    /\ UNCHANGED <<corpus, convVars, vocabVars, trainVars, scorer>>

LoadValidationData ==
    /\ fulldata.call = "none"
    /\ corpus.mode = "validation"
    /\ fulldata' = [call |-> "load_validation_data"] @@
           load_validation_data(corpus.training_source, corpus.training_target,
                                corpus.validation_source, corpus.validation_target,
                                SourceVocab, TargetVocab, corpus.similar_indices)
    /\ UNCHANGED <<corpus, convVars, vocabVars, trainVars, scorer>>

NextLoad == LoadTrainData \/ LoadValidationData

SpecLoad == InitLoad /\ [][NextLoad]_vars

\* the Examples of the training corpus (the reference pool) and of the
\* corpus being augmented
PoolExamples ==
    load_data(corpus.training_source, corpus.training_target,
              SourceVocab, TargetVocab).data
OwnExamples ==
    IF corpus.mode = "train" THEN PoolExamples
    ELSE load_data(corpus.validation_source, corpus.validation_target,
                   SourceVocab, TargetVocab).data

Returned == fulldata.call # "none" /\ fulldata.err = "none"

\* C3: for every line i of the index file, the retrieved set of example i
\* has one entry per integer after the first, in the file's order and with
\* duplicates kept, each integer that names an Example of the reference
\* pool giving that Example; the pool is the training corpus for
\* load_train_data and for load_validation_data alike, and source and
\* target of example i are the i-th Example of the corpus being augmented.
C3_RetrievedSetInOrder ==
    Returned =>
        LET pool == PoolExamples
            own == OwnExamples
        IN  /\ Len(fulldata.fulldata) = Len(corpus.table)
            /\ \A i \in 1..Len(corpus.table) :
                  LET row == fulldata.fulldata[i]
                  IN  /\ <<row[1], row[2]>> = own[i]
                      /\ Len(row[3]) = Len(corpus.table[i])
                      /\ \A j \in 1..Len(corpus.table[i]) :
                            corpus.table[i][j] \in 0..(Len(pool) - 1) =>
                                row[3][j] = pool[corpus.table[i][j] + 1]

\* a validation corpus, different from the training corpus, one of whose
\* index lines names the same training Example twice
C3_Witness ==
    /\ Returned
    /\ fulldata.call = "load_validation_data"
    /\ Len(PoolExamples) = 2
    /\ \E i \in 1..Len(corpus.table) :
          /\ corpus.table[i] = <<1, 1>>
          /\ OwnExamples[i] # PoolExamples[i]
          /\ fulldata.fulldata[i][3] = <<PoolExamples[2], PoolExamples[2]>>

\* C4: the loaders fail whenever the index file and the corpus being
\* augmented differ in their line counts, or some integer after the first
\* of some line lies outside [0, size of the reference pool), a negative
\* integer included.
C4_FailsOnBadIndex ==
    (fulldata.call # "none"
        /\ corpus.training_source.exists /\ corpus.training_target.exists
        /\ (corpus.mode = "validation" =>
               corpus.validation_source.exists /\ corpus.validation_target.exists)) =>
        ((\/ Len(corpus.similar_indices.lines) #
                 Len(IF corpus.mode = "train" THEN corpus.training_source.lines
                     ELSE corpus.validation_source.lines)
          \/ \E i \in 1..Len(corpus.table) : \E j \in 1..Len(corpus.table[i]) :
                 corpus.table[i][j] \notin 0..(Len(corpus.training_source.lines) - 1))
            => fulldata.err # "none")

(***************************************************************************)
(* CalculateBleu called once, over a held-out dataset of plain or of       *)
(* augmented examples, with either converter.                              *)
(***************************************************************************)
BleuKey == "validation/main/bleu"

PlainHeldOut(n) ==
    load_data(ValidationSource(n), ValidationTarget(n), SourceVocab, TargetVocab).data

AugmentedHeldOut(n) ==
    load_validation_data(TrainingSource(2), TrainingTarget(2),
                         ValidationSource(n), ValidationTarget(n),
                         SourceVocab, TargetVocab, ValidationIndexFile(n, 2)).fulldata

InitBleu ==
    /\ \E n \in 1..MaxCorpus, b \in 1..MaxBatch,
          c \in {"convert", "convert_with_similar_sentences"} :
          \/ scorer = NewScorer(PlainHeldOut(n), b, c, BleuKey)
          \/ scorer = NewScorer(AugmentedHeldOut(n), b, c, BleuKey)
    /\ IdleConvert /\ IdleVocab /\ IdleLoad /\ IdleTrain

BleuCall ==
    /\ scorer.status = "constructed"
    /\ scorer' = ScorerReset(scorer)
    /\ UNCHANGED <<convVars, vocabVars, loadVars, trainVars>>

BleuMinibatch ==
    /\ scorer.status = "iterating"
    /\ scorer.current_position < Len(scorer.dataset)
    /\ \E results \in TranslateResults(
              BatchAt(scorer.dataset, scorer.current_position, scorer.batch_size)) :
          scorer' = ScorerMinibatch(scorer, results)
    /\ UNCHANGED <<convVars, vocabVars, loadVars, trainVars>>

BleuReport ==
    /\ scorer.status = "iterating"
    /\ scorer.current_position >= Len(scorer.dataset)
    /\ scorer' = ScorerReport(scorer)
    /\ UNCHANGED <<convVars, vocabVars, loadVars, trainVars>>

NextBleu == BleuCall \/ BleuMinibatch \/ BleuReport

SpecBleu == InitBleu /\ [][NextBleu]_vars

\* C9: every hypothesis passed to the BLEU computation is the sequence
\* translate returned without its trailing EOS and with every other token
\* kept, and the i-th hypothesis stands against the i-th held-out target
\* sequence (without EOS), in held-out order.
C9_HypothesesStripped ==
    (scorer.status \in {"iterating", "reported"}) =>
        /\ Len(scorer.hypotheses) = Len(scorer.translated)
        /\ \A i \in 1..Len(scorer.hypotheses) :
              Append(scorer.hypotheses[i], EOS) = scorer.translated[i]
        /\ scorer.status = "reported" =>
              /\ Len(scorer.hypotheses) = Len(scorer.dataset)
              /\ Len(scorer.list_of_references) = Len(scorer.dataset)
              /\ \A i \in 1..Len(scorer.dataset) :
                    scorer.list_of_references[i] = <<scorer.dataset[i][2]>>

\* a reported pass over two held-out examples in two minibatches, with two
\* different translations, one of them longer than its EOS
C9_Witness ==
    /\ scorer.status = "reported"
    /\ scorer.reported = <<BleuKey>>
    /\ Len(scorer.dataset) = 2
    /\ scorer.batch_size = 1
    /\ scorer.hypotheses[1] # scorer.hypotheses[2]
    /\ Len(scorer.translated[2]) = MaxLen + 1

(***************************************************************************)
(* train(args): the set-up, the loop of Trainer.run (one optimizer step,   *)
(* then the extensions that are due, one after the other), and a second    *)
(* process started with resume_file naming a snapshot of the first.        *)
(***************************************************************************)
InitTrain ==
    /\ args \in ArgsSet
    /\ pc = "start" /\ error = "none"
    /\ training_data = NotCalled /\ validation_data = NotCalled
    /\ trainer = NewTrainer /\ rng = 0 /\ ext = 0 /\ fired = {}
    /\ snapshots = {} /\ run = 1 /\ uninterrupted = NoState
    /\ IdleConvert /\ IdleVocab /\ IdleLoad /\ IdleScorer

Abort(name) ==
    /\ pc' = "aborted"
    /\ error' = name

\* lines 305-445: everything train() does before trainer.run()
Setup ==
    /\ pc = "start"
    /\ training_data' = TrainingData(args)
    /\ validation_data' =
           IF training_data'.err = "none" /\ args.validation THEN ValidationData(args)
           ELSE NotCalled
    /\ IF training_data'.err # "none"
       THEN Abort(training_data'.err) /\ UNCHANGED <<trainer, rng>>
       ELSE IF args.validation /\ validation_data'.err # "none"
       THEN Abort(validation_data'.err) /\ rng' = rng + 1 /\ UNCHANGED trainer
       ELSE /\ pc' = "running"
            /\ error' = "none"
            \* the shuffling training iterator draws its first order,
            \* which load_npz replaces by the stored one
            /\ rng' = rng + 1
            /\ \E order \in Orders(Len(training_data'.fulldata)) :
                  trainer' = IF args.resume_file = NoSnapshot
                             THEN [NewTrainer EXCEPT !.order = order]
                             ELSE args.resume_file
    /\ UNCHANGED <<args, ext, fired, snapshots, run, uninterrupted>>
    /\ UNCHANGED <<convVars, vocabVars, loadVars, scorer>>

\* Trainer.run: the stop trigger (epoch, 'epoch') has fired
Stop ==
    /\ pc = "running" /\ ext = 0
    /\ trainer.epoch >= args.epoch
    /\ pc' = "terminated"
    /\ UNCHANGED <<args, error, training_data, validation_data, trainer, rng, ext,
                   fired, snapshots, run, uninterrupted>>
    /\ UNCHANGED <<convVars, vocabVars, loadVars, scorer>>

\* StandardUpdater.update: next minibatch, converter, loss, optimizer step
Update ==
    /\ pc = "running" /\ ext = 0
    /\ trainer.epoch < args.epoch
    /\ LET dataset == training_data.fulldata
           i_end == trainer.current_position + args.minibatch_size
           new_epoch == i_end >= Len(dataset)
       IN  \* the iterator reshuffles at the end of an epoch
           \E new_order \in IF new_epoch THEN Orders(Len(dataset))
                             ELSE {trainer.order} :
              LET mb == TrainingBatch(dataset, trainer.order, new_order,
                                      trainer.current_position, args.minibatch_size)
                  conv == ApplyConverter(Converter(args), mb)
                  \* the iterator has yielded the minibatch
                  advanced ==
                      [trainer EXCEPT
                          !.epoch = IF new_epoch THEN @ + 1 ELSE @,
                          !.current_position =
                              IF new_epoch THEN i_end - Len(dataset) ELSE i_end,
                          !.order = new_order]
              IN  IF conv.err # "none"
                  THEN /\ Abort(conv.err)
                       /\ trainer' = advanced
                       /\ rng' = IF new_epoch THEN rng + 1 ELSE rng
                       /\ UNCHANGED <<ext, fired>>
                  ELSE /\ trainer' =
                             [advanced EXCEPT !.iteration = @ + 1,
                                              !.optimizer_t = @ + 1]
                       /\ rng' = IF new_epoch THEN rng + 1 ELSE rng
                       /\ ext' = 1
                       /\ fired' = {}
                       /\ UNCHANGED <<pc, error>>
    /\ UNCHANGED <<args, training_data, validation_data, snapshots, run, uninterrupted>>
    /\ UNCHANGED <<convVars, vocabVars, loadVars, scorer>>

\* Trainer.run: the next extension of this iteration, called if its
\* trigger fires; an exception it raises ends the run
RunExtension ==
    /\ pc = "running" /\ ext >= 1
    /\ LET e == Extensions(args)[ext]
           raised == IF args.validation
                     THEN ExtensionError(args, e, validation_data.fulldata)
                     ELSE "none"
       IN  IF ~Due(args, e, trainer.iteration)
           THEN UNCHANGED <<pc, error, fired, snapshots, rng>>
                /\ ext' = IF ext = Len(Extensions(args)) THEN 0 ELSE ext + 1
           ELSE IF raised # "none"
           THEN Abort(raised) /\ UNCHANGED <<fired, snapshots, rng, ext>>
           ELSE /\ fired' = fired \cup {e}
                /\ snapshots' = IF e = "snapshot" THEN snapshots \cup {trainer}
                                ELSE snapshots
                \* np.random.choice(validation_size)
                /\ rng' = IF e = "translate" THEN rng + 1 ELSE rng
                /\ ext' = IF ext = Len(Extensions(args)) THEN 0 ELSE ext + 1
                /\ UNCHANGED <<pc, error>>
    /\ UNCHANGED <<args, training_data, validation_data, trainer, run, uninterrupted>>
    /\ UNCHANGED <<convVars, vocabVars, loadVars, scorer>>

\* a new process: train(args) with resume_file naming a snapshot the first
\* run wrote
Resume ==
    /\ pc = "terminated" /\ run = 1
    /\ \E s \in snapshots :
          args' = [args EXCEPT !.resume_file = s]
    /\ uninterrupted' = TrainingState
    /\ run' = 2
    /\ pc' = "start"
    /\ training_data' = NotCalled /\ validation_data' = NotCalled
    /\ trainer' = NewTrainer /\ rng' = 0 /\ ext' = 0 /\ fired' = {}
    /\ UNCHANGED <<error, snapshots>>
    /\ UNCHANGED <<convVars, vocabVars, loadVars, scorer>>

NextTrain == Setup \/ Stop \/ Update \/ RunExtension \/ Resume

SpecTrain == InitTrain /\ [][NextTrain]_vars

\* the extension loop of the current iteration is over, or an exception
\* ended the run
IterationOver ==
    /\ trainer.iteration >= 1
    /\ \/ pc = "running" /\ ext = 0
       \/ pc = "aborted"
       \/ pc = "terminated"

\* C6: with held-out data configured and K = extension_trigger, at every
\* iteration n >= 1 logging fires iff K divides n, the held-out loss
\* evaluation, the BLEU scorer and the translation sample fire iff 5K
\* divides n, the snapshot fires iff 50K divides n, each whatever the others
\* do, and all of them before optimizer step n+1 begins.
C6_TriggersFire ==
    (args.validation /\ IterationOver) =>
        \A e \in {"log", "evaluator", "bleu", "translate", "snapshot"} :
            (e \in fired) <=> (trainer.iteration % Period(args, e) = 0)

\* C7: a run resumed from a snapshot taken at iteration c ends in the same
\* TrainingState (iteration, epoch, optimizer parameters, random-number
\* state) as the uninterrupted run, the data order and the seeding being
\* the same; after the restore the counters continue from the stored values.
C7_ResumeEquivalent ==
    /\ (run = 2 /\ pc \in {"running", "terminated"}) =>
           /\ trainer.iteration >= args.resume_file.iteration
           /\ trainer.epoch >= args.resume_file.epoch
    /\ (run = 2 /\ pc = "terminated") => TrainingState = uninterrupted

\* C8: with held-out data configured, every firing of the evaluation
\* trigger (each multiple of 5K iterations) runs the BLEU scorer over the
\* held-out data train loaded, which reports its score, and the loop goes
\* on with the next iteration instead of aborting.
C8_ScorerRunsAtEachFiring ==
    (args.validation /\ IterationOver
        /\ trainer.iteration % (args.extension_trigger * EvaluationMultiple) = 0) =>
        /\ "bleu" \in fired
        /\ pc # "aborted"

\* C10: train supports both configurations: without an index file the
\* training corpus is loaded as plain Examples, convert is the converter
\* and the loop reaches its first iteration; with an index file the examples
\* are augmented and convert_with_similar_sentences is the converter; the
\* converter accepts every minibatch of the optimizer steps.
C10_BothConfigurations ==
    /\ (pc # "start" /\ ~args.similar_sentence_indices.given) =>
           /\ Converter(args) = "convert"
           /\ pc = "aborted" => trainer.iteration >= 1
    /\ (pc # "start" /\ args.similar_sentence_indices.given /\ ~args.validation) =>
           /\ Converter(args) = "convert_with_similar_sentences"
           /\ pc # "aborted"

====
